---- MODULE Spec2Model ----
(***************************************************************************)
(* A model of pyintegration: the container readiness loop (container.py),  *)
(* the fixture handling of IntegrationTestCase (integration_testcase.py)   *)
(* and the mock HTTP server (flask_server.py, server_responses.py).        *)
(*                                                                         *)
(* Times are integers counting eighths of a second, so that the program's  *)
(* DEFAULT_CONTAINER_POLL_MIN of 0.25 s is 2 and positive intervals below  *)
(* it exist.  Strings that the program normalises (paths, methods) are     *)
(* sequences of one-character strings.                                     *)
(***************************************************************************)
EXTENDS Integers, Sequences, FiniteSets, TLC

VARIABLES
    \* ---- Container wrappers and the container runtime (container.py)
    container,           \* Container.container: TRUE when the wrapper holds a handle
    docker,              \* the runtime's status of the container of that name
    \* ---- one call of waitForReady (container.py 350-396)
    containers,          \* argument: the list of containers
    max_wait_seconds,    \* argument
    max_poll_seconds,    \* argument
    start_poll_seconds,  \* argument
    w_pc,                \* position of the call
    poll_seconds, starttime, currtime, endtime, unready,
    idx,                 \* position of the list comprehension of line 371
    kept,                \* the list that comprehension is building
    now,                 \* the wall clock, datetime.now()
    result,              \* what the call returned
    reported,            \* history: containers whose isReady() returned True in this call
    slept,               \* history: the intervals handed to a sleep() that slept
    sleeps,              \* history: the first intervals handed to sleep(), in order
    checked,             \* history: the containers checked since the last sleep()
    \* ---- BackgroundProcess (background_process.py)
    process,             \* BackgroundProcess.process: TRUE when a subprocess is held
    \* ---- one test of an IntegrationTestCase (integration_testcase.py)
    tc_pc,               \* "idle", "body", "ended", "tornDown", "tearDownRaised"
    capture_scheme,      \* self.capture_scheme, from PYINT_TEST_CAPTURE
    capture_data,        \* self._capture_data
    filenames,           \* self._filenames
    tc_containers,       \* self._containers
    tc_processes,        \* self._processes
    tc_failed,           \* not self.isSuccessful()
    disk,                \* the files that exist
    logfile,             \* the <test>_commands.log file: "absent", "written", "failed"
    termCalls,           \* history: the number of terminate() calls on each fixture
    ran,                 \* history: the commands run by command() and curl(), in order
    tdRuns,              \* history: the number of runs of tearDown
    kills,               \* history: the number of kill requests terminate() made for each fixture
    \* ---- the mock server (flask_server.py) and ServerResponses (server_responses.py)
    base_path,           \* ServerResponses.base_path
    responses,           \* ServerResponses.responses: path -> method -> ResponseInfo
    response_data,       \* FlaskApp.response_data
    request_data,        \* FlaskApp.request_data
    statistics,          \* FlaskApp.statistics
    reqlog,              \* history: the requests the server has handled, in order
    resetAt,             \* history: how many of them preceded the last reset_statistics()
    lastAdd,             \* history: the status of the latest add_response of each pair
    nadds,               \* history: the number of add_response calls
    \* ---- calls on one Container wrapper (container.py 28-225)
    c_log,               \* the bytes the runtime holds as the container's log
    last_log_size,       \* Container.last_log_size
    snapLog,             \* history: the log when logSnapshotSet() last read it
    snapOk,              \* history: since then the log has only grown
    w_op,                \* the last call on a fixture: its name
    w_ret,               \* what it returned or raised
    w_out,               \* the stdout of the Result it returned, a list of lines
    w_pre,               \* history: the state the last call was made in
    runs,                \* history: the number of containers.run() calls
    asks,                \* history: the number of stop() and kill() requests to the runtime
    ncalls,              \* history: the number of calls made
    volumes,             \* Container.volumes: the host paths that are mounted
    execs,               \* history: the number of exec_run and put_archive requests
    refused,             \* history: a start() has raised FileNotFoundError
    \* ---- calls on one BackgroundProcess (background_process.py)
    bp_stdout,           \* BackgroundProcess.stdout and stderr: "None", "BytesIO", "closed"
    startTime,           \* BackgroundProcess.startTime is set
    bp_asked,            \* history: start() was called and no stop() or terminate() since
    \* ---- one run of IntegrationTestRunner (integration_testrunner.py)
    r_pc,                \* position of run()
    args,                \* the parsed arguments
    discovered,          \* the test names loader.discover() found, in order
    suite,               \* the test names in the suite
    excl,                \* position in args.test_exclude
    test_result,         \* the outcomes of the tests run
    testCaseData,        \* DebugTestResult.testCaseData: the records, by test name
    r_ret,               \* what run() returned or raised
    \* ---- the server thread inside process_request's counting statement
    s_pc,                \* position of the server thread in process_request
    s_req,               \* the request being processed
    s_val,               \* the value computed by statistics.get(stats_key, 0) + 1
    s_live,              \* the dict the thread loaded is still FlaskApp.statistics
    s_dict,              \* the contents of the loaded dict once it was replaced
    s_reset              \* history: reset_statistics() ran during this request

waitVars == <<containers, max_wait_seconds, max_poll_seconds, start_poll_seconds,
              w_pc, poll_seconds, starttime, currtime, endtime, unready, idx, kept,
              now, result, reported, slept, sleeps, checked>>
fixtureVars == <<container, docker>>
tcVars == <<process, tc_pc, capture_scheme, capture_data, filenames, tc_containers,
            tc_processes, tc_failed, disk, logfile, termCalls, ran, tdRuns, kills>>
threadVars == <<s_pc, s_req, s_val, s_live, s_dict, s_reset>>
srvVars == <<base_path, responses, response_data, request_data, statistics, reqlog,
             resetAt, lastAdd, nadds, threadVars>>
wrapperVars == <<c_log, last_log_size, snapLog, snapOk, w_op, w_ret, w_out, w_pre, runs, asks, ncalls,
                 volumes, execs, refused,
                 bp_stdout, startTime, bp_asked>>
runVars == <<r_pc, args, discovered, suite, excl, test_result, testCaseData, r_ret>>
vars == <<fixtureVars, waitVars, tcVars, srvVars, wrapperVars, runVars>>

(***************************************************************************)
(* Bounds of the model and constants of the program.                       *)
(***************************************************************************)
MaxWait == 4
MaxPollBound == 4
MaxStart == 3
MaxCommands == 2
MaxOps == 3
MaxSleeps == 3
MaxCalls == 4
MaxLog == 2
MaxTests == 2
MaxTicks == 1
DEFAULT_CONTAINER_POLL_MIN == 2

Containers == {"c1", "c2"}
Status == {"restarting", "running", "exited"}
Processes == {"p1"}
Files == {"f1", "f2"}
Commands == {"cmd1"}
CurlCommands == {"curl1"}
Schemes == {"all", "success", "failure", "unset"}
TickCap == MaxWait + 1

\* the arguments tried: negative, zero, below the minimum, and the bounds
WaitChoices == {-1, 0, MaxWait}
PollChoices == {-1, 0, 1, MaxPollBound}
StartChoices == {-1, MaxStart}

Min(a, b) == IF a <= b THEN a ELSE b
Max(a, b) == IF a >= b THEN a ELSE b
Range(s) == {s[i] : i \in DOMAIN s}

\* a history of at most MaxSleeps entries
Record(h, x) == IF Len(h) < MaxSleeps THEN Append(h, x) ELSE h

\* The lists of distinct containers.
ContainerLists ==
    {s \in UNION {[1..n -> Containers] : n \in 0..Cardinality(Containers)} :
        \A i, j \in DOMAIN s : s[i] = s[j] => i = j}

NoResult == [returned |-> FALSE, none |-> FALSE, list |-> <<>>]

(***************************************************************************)
(* Container.isReady (container.py 218-225) with Container.refresh and     *)
(* _findByName (112-123): containers.list() holds the containers that have *)
(* not exited; refresh() sets the handle to what it finds, None included.  *)
(***************************************************************************)
Listed(c) == docker[c] # "exited"

\* "False", "True", or "AttributeError" (None.status, line 225)
IsReadyOutcome(c) ==
    IF ~container[c] THEN "False"
    ELSE IF ~Listed(c) THEN "AttributeError"
    ELSE IF docker[c] = "running" THEN "True" ELSE "False"

\* the handle after isReady: refresh() stores the result of _findByName
HandleAfterRefresh(c) == container[c] /\ Listed(c)

(***************************************************************************)
(* waitForReady (container.py 350-396)                                     *)
(***************************************************************************)
\* line 366
FirstPoll(start) == Max(start, DEFAULT_CONTAINER_POLL_MIN)

\* line 370
LoopAlways(e, c) == TRUE
LoopCond(e, c) == e >= c

\* line 371, one element of the comprehension
KeepAll(k, c, ready) == Append(k, c)
KeepUnready(k, c, ready) == IF ready THEN k ELSE Append(k, c)

\* line 379
ClampNone(p, maxp) == p
ClampPoll(p, maxp) == Min(p, maxp)

\* line 384
BackoffNone(p) == p
Backoff(p) == p * 2

\* lines 361-369
WaitEnter ==
    /\ w_pc = "entry"
    /\ poll_seconds' = FirstPoll(start_poll_seconds)
    /\ starttime' = now
    /\ currtime' = now
    /\ endtime' = now + max_wait_seconds
    /\ unready' = containers
    /\ w_pc' = "while"
    /\ UNCHANGED <<wrapperVars, runVars, tcVars, srvVars, fixtureVars, containers, max_wait_seconds, max_poll_seconds,
                   start_poll_seconds, idx, kept, now, result, reported, slept, sleeps, checked>>

\* line 370
WaitWhile ==
    /\ w_pc = "while"
    /\ IF LoopCond(endtime, currtime)
         THEN w_pc' = "check" /\ idx' = 1 /\ kept' = <<>>
         ELSE w_pc' = "after" /\ UNCHANGED <<idx, kept>>
    /\ UNCHANGED <<wrapperVars, runVars, tcVars, srvVars, fixtureVars, containers, max_wait_seconds, max_poll_seconds,
                   start_poll_seconds, poll_seconds, starttime, currtime, endtime,
                   unready, now, result, reported, slept, sleeps, checked>>

\* line 371: isReady() of one element of unready
WaitCheckOne ==
    /\ w_pc = "check"
    /\ idx <= Len(unready)
    /\ LET c == unready[idx]
           out == IsReadyOutcome(c)
       IN /\ container' = [container EXCEPT ![c] = HandleAfterRefresh(c)]
          /\ checked' = checked \cup {c}
          /\ IF out = "AttributeError"
               THEN w_pc' = "raised" /\ UNCHANGED <<idx, kept, reported>>
               ELSE /\ w_pc' = "check"
                    /\ idx' = idx + 1
                    /\ kept' = KeepUnready(kept, c, out = "True")
                    /\ reported' = IF out = "True" THEN reported \cup {c} ELSE reported
    /\ UNCHANGED <<wrapperVars, runVars, tcVars, srvVars, docker, containers, max_wait_seconds, max_poll_seconds,
                   start_poll_seconds, poll_seconds, starttime, currtime, endtime,
                   unready, now, result, slept, sleeps>>

\* lines 371-377: the comprehension is assigned, and the loop left when it is empty
WaitCheckEnd ==
    /\ w_pc = "check"
    /\ idx > Len(unready)
    /\ unready' = kept
    /\ w_pc' = IF kept = <<>> THEN "after" ELSE "sleep"
    /\ UNCHANGED <<wrapperVars, runVars, tcVars, srvVars, fixtureVars, containers, max_wait_seconds, max_poll_seconds,
                   start_poll_seconds, poll_seconds, starttime, currtime, endtime,
                   idx, kept, now, result, reported, slept, sleeps, checked>>

\* lines 379-385: sleep() of a negative interval raises ValueError; otherwise at
\* least the interval passes before datetime.now() is read again
WaitSleep ==
    /\ w_pc = "sleep"
    /\ LET p == ClampPoll(poll_seconds, max_poll_seconds)
       IN IF p < 0
            THEN /\ poll_seconds' = p
                 /\ w_pc' = "raised"
                 /\ sleeps' = Record(sleeps, p)
                 /\ UNCHANGED <<now, currtime, slept, checked>>
            ELSE /\ now' = now + p
                 /\ poll_seconds' = Backoff(p)
                 /\ currtime' = now'
                 /\ slept' = slept \cup {p}
                 /\ sleeps' = Record(sleeps, p)
                 /\ checked' = {}
                 /\ w_pc' = "while"
    /\ UNCHANGED <<wrapperVars, runVars, tcVars, srvVars, fixtureVars, containers, max_wait_seconds, max_poll_seconds,
                   start_poll_seconds, starttime, endtime, unready, idx, kept,
                   result, reported>>

\* lines 387-396
WaitReturn ==
    /\ w_pc = "after"
    /\ result' = IF unready # <<>>
                   THEN [returned |-> TRUE, none |-> FALSE, list |-> unready]
                   ELSE [returned |-> TRUE, none |-> TRUE, list |-> <<>>]
    /\ w_pc' = "returned"
    /\ UNCHANGED <<wrapperVars, runVars, tcVars, srvVars, fixtureVars, containers, max_wait_seconds, max_poll_seconds,
                   start_poll_seconds, poll_seconds, starttime, currtime, endtime,
                   unready, idx, kept, now, reported, slept, sleeps, checked>>

WaitRunning == w_pc \in {"entry", "while", "check", "sleep", "after"}
WaitFinished == w_pc \in {"returned", "raised"}

\* the wall clock advances while the readiness checks run (a sleep that lasts
\* longer than asked is a check that started later)
Tick ==
    /\ w_pc = "check"
    /\ now < TickCap
    /\ now' = now + 1
    /\ UNCHANGED <<wrapperVars, runVars, tcVars, srvVars, fixtureVars, containers, max_wait_seconds, max_poll_seconds,
                   start_poll_seconds, w_pc, poll_seconds, starttime, currtime,
                   endtime, unready, idx, kept, result, reported, slept, sleeps, checked>>

\* the runtime: a started container comes up, restarts, or exits (and is then no
\* longer listed)
DockerChange ==
    /\ WaitRunning
    /\ \E c \in Containers, s \in Status :
          /\ docker[c] # "exited"
          /\ s # docker[c]
          /\ docker' = [docker EXCEPT ![c] = s]
    /\ UNCHANGED <<wrapperVars, runVars, container, waitVars, tcVars, srvVars>>

WaitStep == WaitEnter \/ WaitWhile \/ WaitCheckOne \/ WaitCheckEnd \/ WaitSleep \/ WaitReturn

\* the server thread is between two requests
NoRequest == [path |-> <<>>, method |-> <<>>, body |-> "-"]
ThreadIdle ==
    /\ s_pc = "idle"
    /\ s_req = NoRequest
    /\ s_val = 0
    /\ s_live = FALSE
    /\ s_dict = <<>>
    /\ s_reset = FALSE

\* no mock server is running
SrvIdle ==
    /\ base_path = <<>>
    /\ responses = <<>>
    /\ response_data = <<>>
    /\ request_data = <<>>
    /\ statistics = <<>>
    /\ reqlog = <<>>
    /\ resetAt = 0
    /\ lastAdd = <<>>
    /\ nadds = 0
    /\ ThreadIdle

\* no call is made on the fixtures themselves
NoCallYet ==
    /\ c_log = <<>>
    /\ last_log_size = 0
    /\ snapLog = <<>>
    /\ snapOk = FALSE
    /\ w_op = "none"
    /\ w_ret = "none"
    /\ w_out = <<>>
    /\ w_pre = [handle |-> FALSE, status |-> "exited", runs |-> 0, asked |-> FALSE,
                 volumes |-> {}, execs |-> 0, images |-> <<>>]
    /\ refused = FALSE
    /\ runs = 0
    /\ asks = 0
    /\ ncalls = 0
    /\ execs = 0
    /\ bp_stdout = "None"
    /\ startTime = FALSE
    /\ bp_asked = FALSE
WrapperIdle ==
    /\ NoCallYet
    /\ volumes = {}

NotReturned == [kind |-> "none", value |-> 0, exc |-> ""]
Returned(v) == [kind |-> "returned", value |-> v, exc |-> ""]
Raised(e) == [kind |-> "raised", value |-> 0, exc |-> e]

\* no test run is under way
RunIdle ==
    /\ r_pc = "idle"
    /\ args = <<>>
    /\ discovered = <<>>
    /\ suite = <<>>
    /\ excl = 1
    /\ test_result = <<>>
    /\ testCaseData = <<>>
    /\ r_ret = NotReturned

\* no test is running
TCIdle ==
    /\ process = [p \in Processes |-> FALSE]
    /\ tc_pc = "idle"
    /\ capture_scheme = "unset"
    /\ capture_data = <<>>
    /\ filenames = {}
    /\ tc_containers = <<>>
    /\ tc_processes = <<>>
    /\ tc_failed = FALSE
    /\ disk = {}
    /\ logfile = "absent"
    /\ termCalls = [x \in Containers \cup Processes |-> 0]
    /\ ran = <<>>
    /\ tdRuns = 0
    /\ kills = [x \in Containers \cup Processes |-> 0]

InitWait ==
    /\ TCIdle
    /\ SrvIdle
    /\ WrapperIdle
    /\ RunIdle
    /\ containers \in ContainerLists
    /\ max_wait_seconds \in WaitChoices
    /\ max_poll_seconds \in PollChoices
    /\ start_poll_seconds \in StartChoices
    /\ container \in [Containers -> BOOLEAN]
    /\ docker \in [Containers -> Status]
    \* a wrapper that was never started has no container in the runtime, and a
    \* container that is not in the list is not looked at
    /\ \A c \in Containers : ~container[c] => docker[c] = "exited"
    /\ \A c \in Containers : c \notin Range(containers) => ~container[c]
    /\ w_pc = "entry"
    /\ poll_seconds = 0 /\ starttime = 0 /\ currtime = 0 /\ endtime = 0
    /\ unready = <<>> /\ idx = 1 /\ kept = <<>>
    /\ now = 0
    /\ result = NoResult
    /\ reported = {}
    /\ slept = {}
    /\ sleeps = <<>>
    /\ checked = {}

NextWait ==
    \/ WaitEnter
    \/ WaitWhile
    \/ WaitCheckOne
    \/ WaitCheckEnd
    \/ WaitSleep
    \/ WaitReturn
    \/ Tick
    \/ DockerChange

SpecWait == InitWait /\ [][NextWait]_vars

\* The interpreter runs the call on, and the wall clock does not stop: of the
\* rounds of checks of a call that polls for ever, some take time.
SpecWaitFair == SpecWait /\ WF_vars(WaitStep) /\ SF_vars(Tick)

(***************************************************************************)
(* IntegrationTestCase (integration_testcase.py): one test, from setUp to  *)
(* tearDown, with the fixtures' terminate() (container.py 151-161,         *)
(* background_process.py 94-106).                                          *)
(***************************************************************************)
Reverse(s) == [i \in 1..Len(s) |-> s[Len(s) + 1 - i]]

\* tearDown, lines 69-73
ShouldCapture(scheme, successful) ==
    \/ scheme = "all"
    \/ (scheme = "success" /\ successful)
    \/ ~successful

\* writeCaptureData, lines 90-100: nothing for empty data; a failure of open() or
\* write() is printed and swallowed
WriteCaptureData(ioOk) ==
    IF capture_data = <<>> THEN logfile
    ELSE IF ioOk THEN "written" ELSE "failed"

\* Container.terminate, container.py 151-161: kill() of a container that the
\* runtime no longer runs raises, the exception is swallowed and the handle kept
KillSucceeds(c) == container[c] /\ Listed(c)
ContainerClearedAnyway(c) == FALSE
ContainerAfterTerminate(c) == container[c] /\ ~KillSucceeds(c)
DockerAfterTerminate(c) == IF KillSucceeds(c) THEN "exited" ELSE docker[c]

\* BackgroundProcess.terminate, background_process.py 94-106, with cleanup 53-59
ProcessAfterTerminate(p, fails) == process[p] /\ fails

\* setUp, lines 59-65
TCSetUp ==
    /\ tc_pc = "idle"
    /\ capture_data' = <<>>
    /\ filenames' = {}
    /\ tc_containers' = <<>>
    /\ tc_processes' = <<>>
    /\ tc_pc' = "body"
    /\ UNCHANGED <<wrapperVars, runVars, srvVars, fixtureVars, waitVars, process, capture_scheme, tc_failed, disk,
                   logfile, termCalls, ran, tdRuns, kills>>

\* logResult, lines 187-205: the command line, the return value and the output
\* of a Result are appended to the capture data
LogResult(data, cmd) == Append(data, cmd)

\* command, lines 207-237: the Result is handed to logResult (line 236)
TCCommand ==
    /\ tc_pc = "body"
    /\ Len(ran) < MaxCommands
    /\ \E cmd \in Commands :
          /\ capture_data' = LogResult(capture_data, cmd)
          /\ ran' = Append(ran, cmd)
    /\ UNCHANGED <<wrapperVars, runVars, srvVars, fixtureVars, waitVars, process, tc_pc,
                   capture_scheme, filenames, tc_containers, tc_processes, tc_failed,
                   disk, logfile, termCalls, tdRuns, kills>>

\* curl, lines 239-277: the Result is built and returned; logResult is not called
TCCurl ==
    /\ tc_pc = "body"
    /\ Len(ran) < MaxCommands
    /\ \E cmd \in CurlCommands : ran' = Append(ran, cmd)
    /\ UNCHANGED <<wrapperVars, runVars, srvVars, fixtureVars, waitVars, process, tc_pc,
                   capture_scheme, capture_data, filenames, tc_containers, tc_processes,
                   tc_failed, disk, logfile, termCalls, tdRuns, kills>>

\* writeFile, lines 113-121: the name is tracked before the file is opened; when
\* open() raises the test ends in error
TCWriteFile ==
    /\ tc_pc = "body"
    /\ \E f \in Files, ok \in BOOLEAN :
          /\ filenames' = filenames \cup {f}
          /\ IF ok
               THEN disk' = disk \cup {f} /\ UNCHANGED <<tc_pc, tc_failed>>
               ELSE tc_pc' = "ended" /\ tc_failed' = TRUE /\ UNCHANGED disk
    /\ UNCHANGED <<wrapperVars, runVars, srvVars, fixtureVars, waitVars, process, capture_scheme, capture_data,
                   tc_containers, tc_processes, logfile, termCalls, ran, tdRuns, kills>>

\* deleteFile, lines 123-125: set.remove raises KeyError for an untracked name,
\* os.remove raises FileNotFoundError for a missing file
TCDeleteFile ==
    /\ tc_pc = "body"
    /\ \E f \in Files :
          IF f \notin filenames
            THEN /\ tc_pc' = "ended" /\ tc_failed' = TRUE
                 /\ UNCHANGED <<filenames, disk>>
            ELSE /\ filenames' = filenames \ {f}
                 /\ IF f \in disk
                      THEN disk' = disk \ {f} /\ UNCHANGED <<tc_pc, tc_failed>>
                      ELSE tc_pc' = "ended" /\ tc_failed' = TRUE /\ UNCHANGED disk
    /\ UNCHANGED <<wrapperVars, runVars, srvVars, fixtureVars, waitVars, process, capture_scheme, capture_data,
                   tc_containers, tc_processes, logfile, termCalls, ran, tdRuns, kills>>

\* the test, or the program it drives, removes a file itself
TCFileRemoved ==
    /\ tc_pc = "body"
    /\ \E f \in disk : disk' = disk \ {f}
    /\ UNCHANGED <<wrapperVars, runVars, srvVars, fixtureVars, waitVars, process, tc_pc, capture_scheme, capture_data,
                   filenames, tc_containers, tc_processes, tc_failed, logfile,
                   termCalls, ran, tdRuns, kills>>

\* addContainer, lines 127-128
TCAddContainer ==
    /\ tc_pc = "body"
    /\ \E c \in Containers \ Range(tc_containers) :
          tc_containers' = Append(tc_containers, c)
    /\ UNCHANGED <<wrapperVars, runVars, srvVars, fixtureVars, waitVars, process, tc_pc, capture_scheme, capture_data,
                   filenames, tc_processes, tc_failed, disk, logfile, termCalls, ran, tdRuns, kills>>

\* addProcess, lines 139-140
TCAddProcess ==
    /\ tc_pc = "body"
    /\ \E p \in Processes \ Range(tc_processes) :
          tc_processes' = Append(tc_processes, p)
    /\ UNCHANGED <<wrapperVars, runVars, srvVars, fixtureVars, waitVars, process, tc_pc, capture_scheme, capture_data,
                   filenames, tc_containers, tc_failed, disk, logfile, termCalls, ran, tdRuns, kills>>

\* the test method ends: it passed, or an assertion failed
TCEndTest ==
    /\ tc_pc = "body"
    /\ \E f \in BOOLEAN : tc_failed' = f
    /\ tc_pc' = "ended"
    /\ UNCHANGED <<wrapperVars, runVars, srvVars, fixtureVars, waitVars, process, capture_scheme, capture_data,
                   filenames, tc_containers, tc_processes, disk, logfile, termCalls, ran, tdRuns, kills>>

\* tearDown, lines 67-88.  The files are removed in the order of a set; at the first
\* missing one os.remove raises and tearDown is left.  successful is what
\* isSuccessful() returns, log the state of the capture log when tearDown begins.
TearDown(successful, log, pcDone, pcRaised) ==
    /\ \E ioOk \in BOOLEAN :
          logfile' = IF ShouldCapture(capture_scheme, successful)
                       THEN WriteCaptureData(ioOk) ELSE log
    /\ tdRuns' = tdRuns + 1
    /\ IF filenames \subseteq disk
         THEN /\ disk' = disk \ filenames
              /\ tc_containers' = Reverse(tc_containers)
              /\ container' = [c \in Containers |->
                                  IF c \in Range(tc_containers)
                                    THEN ContainerAfterTerminate(c) ELSE container[c]]
              /\ docker' = [c \in Containers |->
                               IF c \in Range(tc_containers)
                                 THEN DockerAfterTerminate(c) ELSE docker[c]]
              /\ tc_processes' = Reverse(tc_processes)
              /\ \E failing \in SUBSET {p \in Range(tc_processes) : process[p]} :
                    process' = [p \in Processes |->
                                   IF p \in Range(tc_processes)
                                     THEN ProcessAfterTerminate(p, p \in failing)
                                     ELSE process[p]]
              /\ termCalls' = [x \in Containers \cup Processes |->
                                  IF x \in Range(tc_containers) \cup Range(tc_processes)
                                    THEN termCalls[x] + 1 ELSE termCalls[x]]
              /\ kills' = [x \in Containers \cup Processes |->
                              IF \/ (x \in Range(tc_containers) /\ container[x])
                                 \/ (x \in Range(tc_processes) /\ process[x])
                                THEN kills[x] + 1 ELSE kills[x]]
              /\ tc_pc' = pcDone
         ELSE /\ \E removed \in SUBSET (filenames \cap disk) : disk' = disk \ removed
              /\ tc_pc' = pcRaised
              /\ UNCHANGED <<fixtureVars, process, tc_containers, tc_processes,
                             termCalls, kills>>

\* unittest runs tearDown after the test method
TCTearDown ==
    /\ tc_pc = "ended"
    /\ TearDown(~tc_failed, logfile, "tornDown", "tearDownRaised")
    /\ UNCHANGED <<wrapperVars, runVars, srvVars, waitVars, capture_scheme, capture_data,
                   filenames, tc_failed, ran>>

\* IntegrationTestCase.waitForReady, lines 279-297, on the containers of the test.
\* isReady() raises for a container that is gone, returns False for ever for one
\* that was not started, and True for one that runs; with a container left
\* unready the capture data is written, tearDown is called and the test fails.
FirstGone ==
    CHOOSE i \in DOMAIN tc_containers :
        /\ container[tc_containers[i]] /\ ~Listed(tc_containers[i])
        /\ \A j \in 1..(i - 1) : ~(container[tc_containers[j]] /\ ~Listed(tc_containers[j]))
TCWaitForReady ==
    /\ tc_pc = "body"
    /\ tc_containers # <<>>
    /\ IF \E c \in Range(tc_containers) : IsReadyOutcome(c) = "AttributeError"
         THEN /\ container' = [container EXCEPT ![tc_containers[FirstGone]] = FALSE]
              /\ tc_failed' = TRUE
              /\ tc_pc' = "ended"
              /\ UNCHANGED <<docker, process, tc_containers, tc_processes, disk, logfile,
                             termCalls, tdRuns, kills>>
         ELSE IF \A c \in Range(tc_containers) : IsReadyOutcome(c) = "True"
                THEN UNCHANGED <<fixtureVars, process, tc_pc, tc_containers, tc_processes,
                                 tc_failed, disk, logfile, termCalls, tdRuns, kills>>
                ELSE /\ \E ioOk \in BOOLEAN :
                          TearDown(TRUE,
                                   IF capture_scheme # "none"
                                     THEN WriteCaptureData(ioOk) ELSE logfile,
                                   "ended", "ended")
                     /\ tc_failed' = TRUE
    /\ UNCHANGED <<wrapperVars, runVars, srvVars, waitVars, capture_scheme, capture_data,
                   filenames, ran>>

\* no call of waitForReady is running
WaitIdle ==
    /\ containers = <<>>
    /\ max_wait_seconds = 0 /\ max_poll_seconds = 0 /\ start_poll_seconds = 0
    /\ w_pc = "idle"
    /\ poll_seconds = 0 /\ starttime = 0 /\ currtime = 0 /\ endtime = 0
    /\ unready = <<>> /\ idx = 1 /\ kept = <<>>
    /\ now = 0
    /\ result = NoResult
    /\ reported = {}
    /\ slept = {}
    /\ sleeps = <<>>
    /\ checked = {}

InitTC ==
    /\ WaitIdle
    /\ SrvIdle
    /\ WrapperIdle
    /\ RunIdle
    /\ container \in [Containers -> BOOLEAN]
    /\ docker \in [Containers -> {"running", "exited"}]
    /\ \A c \in Containers : ~container[c] => docker[c] = "exited"
    \* no BackgroundProcess holds a subprocess: start() raises before it has one
    /\ process = [p \in Processes |-> FALSE]
    /\ tc_pc = "idle"
    /\ capture_scheme \in Schemes
    /\ capture_data = <<>>
    /\ filenames = {}
    /\ tc_containers = <<>>
    /\ tc_processes = <<>>
    /\ tc_failed = FALSE
    /\ disk = {}
    /\ logfile = "absent"
    /\ termCalls = [x \in Containers \cup Processes |-> 0]
    /\ ran = <<>>
    /\ tdRuns = 0
    /\ kills = [x \in Containers \cup Processes |-> 0]

NextTC ==
    \/ TCSetUp
    \/ TCCommand
    \/ TCCurl
    \/ TCWriteFile
    \/ TCDeleteFile
    \/ TCFileRemoved
    \/ TCAddContainer
    \/ TCAddProcess
    \/ TCWaitForReady
    \/ TCEndTest
    \/ TCTearDown

SpecTC == InitTC /\ [][NextTC]_vars

(***************************************************************************)
(* Claims about IntegrationTestCase.tearDown                               *)
(***************************************************************************)
TearDownOver == tc_pc \in {"tornDown", "tearDownRaised"}

\* what the capture scheme says of a test that passed or failed
SchemeSays(scheme, failed) ==
    \/ scheme = "all"
    \/ (scheme = "success" /\ ~failed)
    \/ (scheme = "failure" /\ failed)

\* C4: at tearDown, non-empty captured command output is written exactly as the
\* capture scheme says: always under "all", only after a test that passed under
\* "success", only after a test that failed under "failure".
C4_Claim ==
    (TearDownOver /\ capture_scheme \in {"all", "success", "failure"}) =>
        ((logfile # "absent") <=>
            (capture_data # <<>> /\ SchemeSays(capture_scheme, tc_failed)))

\* C5: tearDown calls terminate() on every container and every process added
\* since setUp, whatever the outcome of the test and the files it wrote or deleted.
C5_Claim ==
    TearDownOver =>
        \A x \in Range(tc_containers) \cup Range(tc_processes) : termCalls[x] >= 1

\* C22: when tearDown runs twice on the same test, the second run raises no
\* exception and asks for no container or process to be killed a second time.
C22_Claim ==
    tdRuns = 2 =>
        /\ tc_pc # "tearDownRaised"
        /\ \A x \in Containers \cup Processes : kills[x] <= 1

\* C16: every command run through command() or curl() is appended to the test's
\* capture data, from which the capture log of a failed test is written.
C16_Claim ==
    \A i \in DOMAIN ran : ran[i] \in Range(capture_data)

\* C17: when tearDown is over, no file written with writeFile and not since removed
\* with deleteFile is left on disk.
C17_Claim ==
    TearDownOver => \A f \in filenames : f \notin disk

(***************************************************************************)
(* Claims about waitForReady                                               *)
(***************************************************************************)
NeverReported == SelectSeq(containers, LAMBDA c : c \notin reported)

\* The calls that return: None exactly when every container of the input reported
\* ready on some check of this call, and otherwise exactly the containers that
\* never reported ready, in their input order.
ReturnsNeverReady ==
    result.returned =>
        /\ result.none <=> (Range(containers) \subseteq reported)
        /\ ~result.none => result.list = NeverReported

\* C1: waitForReady returns None exactly when every container of the input reported
\* ready on some check of this call, and otherwise returns exactly the containers
\* that never reported ready, in their input order.  Stated of every call that has ended: it returned None or the list.
C1_Claim ==
    WaitFinished =>
        /\ result.returned
        /\ result.none <=> (Range(containers) \subseteq reported)
        /\ ~result.none => result.list = NeverReported

\* C2: waitForReady always ends (it returns, or an exception leaves it), and no
\* round of readiness checks is begun once the time the loop has read is later
\* than start time + max_wait_seconds.
C2_Terminates ==
    /\ <>WaitFinished
    /\ [](w_pc = "check" => currtime <= starttime + max_wait_seconds)

C2_Witness ==
    /\ w_pc = "returned"
    /\ ~result.none
    /\ reported = {}
    /\ Cardinality(slept) >= 2

\* C3 as stated: every interval slept is at least DEFAULT_CONTAINER_POLL_MIN and at
\* most max_poll_seconds, whatever the arguments.
C3_Original ==
    \A s \in slept : s >= DEFAULT_CONTAINER_POLL_MIN /\ s <= max_poll_seconds

\* C3 as amended: every interval slept is at most max_poll_seconds and at least
\* the smaller of DEFAULT_CONTAINER_POLL_MIN and max_poll_seconds.
C3_SleepBounds ==
    \A s \in slept :
        /\ s <= max_poll_seconds
        /\ s >= Min(DEFAULT_CONTAINER_POLL_MIN, max_poll_seconds)

C3_Witness ==
    /\ WaitFinished
    /\ \E s, t \in slept : s < t /\ t = max_poll_seconds

\* C21: every container that a call of waitForReady that slept returns in its
\* unready list had its readiness checked after the last sleep of the call.
C21_Claim ==
    (w_pc = "returned" /\ ~result.none /\ sleeps # <<>>) =>
        Range(result.list) \subseteq checked

\* C20: the k-th interval handed to sleep() is
\* min(max(start_poll_seconds, DEFAULT_CONTAINER_POLL_MIN) * 2^(k-1), max_poll_seconds):
\* the interval doubles after every poll until it reaches max_poll_seconds.
C20_Backoff ==
    \A k \in DOMAIN sleeps :
        sleeps[k] = Min(Max(start_poll_seconds, DEFAULT_CONTAINER_POLL_MIN) * 2^(k - 1),
                        max_poll_seconds)

\* a second sleep twice as long as the first, which reaches max_poll_seconds
C20_Witness ==
    /\ Len(sleeps) >= 2
    /\ sleeps[1] > 0
    /\ sleeps[2] = 2 * sleeps[1]
    /\ sleeps[2] = max_poll_seconds

(***************************************************************************)
(* The mock server: FlaskApp (flask_server.py 15-87) and ServerResponses   *)
(* (server_responses.py).  A dict is the sequence of its items, in         *)
(* insertion order; a ResponseInfo is its status and its capture flag, the *)
(* other fields being left at their defaults.                              *)
(***************************************************************************)
GET == <<"G", "E", "T">>
get == <<"g", "e", "t">>
POST == <<"P", "O", "S", "T">>

\* the paths and methods handed to add_response, and the ResponseInfo values
PathKeys == {<<"a">>, <<"A", "/">>}
MethodKeys == {GET, get}
Infos == {[status |-> 200, capture |-> FALSE], [status |-> 503, capture |-> TRUE]}
\* the requests: Flask hands process_request the path without its leading slash
\* and the method in upper case
ReqPaths == {<<"a">>, <<"A", "/">>, <<"b">>}
ReqMethods == {GET, POST}
Bodies == {"b1", "b2", "notjson"}
\* ServerResponses.__init__, server_responses.py 12-14, for base paths "" and "/a"
BasePathArgs == {<<>>, <<"/", "a">>}

UpperCase == {"A", "E", "G", "O", "P", "S", "T"}
LowerOf == [ch \in UpperCase |->
               CASE ch = "A" -> "a" [] ch = "E" -> "e" [] ch = "G" -> "g"
                 [] ch = "O" -> "o" [] ch = "P" -> "p" [] ch = "S" -> "s"
                 [] ch = "T" -> "t"]

\* str.lower
Lower(str) == [i \in DOMAIN str |-> IF str[i] \in UpperCase THEN LowerOf[str[i]] ELSE str[i]]

\* str.strip("/")
RECURSIVE LStrip(_)
LStrip(str) == IF str # <<>> /\ Head(str) = "/" THEN LStrip(Tail(str)) ELSE str
RECURSIVE RStrip(_)
RStrip(str) ==
    IF str # <<>> /\ str[Len(str)] = "/" THEN RStrip(SubSeq(str, 1, Len(str) - 1)) ELSE str
Strip(str) == RStrip(LStrip(str))

\* str.startswith
StartsWith(str, prefix) ==
    Len(prefix) <= Len(str) /\ SubSeq(str, 1, Len(prefix)) = prefix

\* the strings of the model
Strings == PathKeys \cup ReqPaths \cup MethodKeys \cup ReqMethods \cup {<<"/", "a", "/">>}

\* _annon, flask_server.py 32-33: s.lower().strip("/"), tabulated over the strings
\* of the model
Normalised == [str \in Strings |-> Strip(Lower(str))]
Annon(str) == Normalised[str]

NotFound == [found |-> FALSE]
Found(v) == [found |-> TRUE, value |-> v]

\* dict[key] = value: an existing key keeps its place
DictSet(d, k, v) ==
    IF \E i \in DOMAIN d : d[i].key = k
      THEN [i \in DOMAIN d |-> IF d[i].key = k THEN [key |-> k, value |-> v] ELSE d[i]]
      ELSE Append(d, [key |-> k, value |-> v])

\* dict.get(key, default)
DictGet(d, k, default) ==
    IF \E i \in DOMAIN d : d[i].key = k
      THEN d[CHOOSE i \in DOMAIN d : d[i].key = k].value
      ELSE default

\* FlaskApp._find_data, flask_server.py 28-41: the first item whose key matches
FindDataRawNeedle(data, name) ==
    LET hits == {i \in DOMAIN data : Annon(data[i].key) = name}
    IN IF hits = {} THEN NotFound
       ELSE Found(data[CHOOSE i \in hits : \A j \in hits : i <= j].value)
FindData(data, name) ==
    LET needle == Annon(name)
        hits == {i \in DOMAIN data : Annon(data[i].key) = needle}
    IN IF hits = {} THEN NotFound
       ELSE Found(data[CHOOSE i \in hits : \A j \in hits : i <= j].value)

\* ResponseInfo.as_dict, response_info.py 16-17
AsDict(info) == [status |-> info.status, capture |-> info.capture]

\* ServerResponses.for_server, server_responses.py 28-36
ForServer(resp) ==
    [i \in DOMAIN resp |->
        [key |-> resp[i].key,
         value |-> [j \in DOMAIN resp[i].value |->
                       [key |-> resp[i].value[j].key,
                        value |-> AsDict(resp[i].value[j].value)]]]]

\* process_request, flask_server.py 62-72: the method's data, or no data (a 404)
MethodDataOrFirst(table, path, method) ==
    LET pd == FindData(table, path)
    IN IF ~pd.found THEN NotFound
       ELSE IF FindData(pd.value, method).found THEN FindData(pd.value, method)
       ELSE IF pd.value # <<>> THEN Found(pd.value[1].value) ELSE NotFound
MethodData(table, path, method) ==
    LET pd == FindData(table, path)
    IN IF ~pd.found THEN NotFound ELSE FindData(pd.value, method)

\* process_request, lines 74-75: json.loads raises for a body that is no JSON
Captures(md) == md.found /\ md.value.capture
BodyRaises(body) == body = "notjson"

\* process_request, lines 62-87: the status of the answer; an exception in the view
\* is answered with 500
StatusOf(table, path, method, body) ==
    LET md == MethodData(table, path, method)
    IN IF ~md.found THEN 404
       ELSE IF Captures(md) /\ BodyRaises(body) THEN 500
       ELSE md.value.status

\* process_request, lines 59-60; the key is f"{method} {path}"
CountOverwrite(stats, key) == (key :> 1) @@ stats
CountRequest(stats, key) ==
    (key :> (IF key \in DOMAIN stats THEN stats[key] ELSE 0) + 1) @@ stats

\* ServerResponses.add_response, server_responses.py 22-26, with fullpath, 16-20:
\* for a path that does not start with base_path, "/".join is handed two arguments
\* and raises TypeError
SrvAddResponse ==
    /\ nadds + Len(reqlog) < MaxOps
    /\ \E path \in PathKeys, method \in MethodKeys, data \in Infos :
          /\ nadds' = nadds + 1
          /\ IF StartsWith(path, base_path)
               THEN /\ responses' =
                          DictSet(responses, path,
                                  DictSet(DictGet(responses, path, <<>>), method, data))
                    /\ lastAdd' = (<<path, method>> :> data.status) @@ lastAdd
               ELSE UNCHANGED <<responses, lastAdd>>
    /\ UNCHANGED <<wrapperVars, runVars, fixtureVars, waitVars, tcVars, threadVars, base_path, response_data,
                   request_data, statistics, reqlog, resetAt>>

\* set_response_data(for_server()), flask_server.py 43-44
SrvSetResponseData ==
    /\ response_data' = ForServer(responses)
    /\ UNCHANGED <<wrapperVars, runVars, fixtureVars, waitVars, tcVars, threadVars, base_path, responses, request_data,
                   statistics, reqlog, resetAt, lastAdd, nadds>>

\* reset_statistics, flask_server.py 52-53
SrvResetStatistics ==
    /\ statistics' = <<>>
    /\ resetAt' = Len(reqlog)
    /\ UNCHANGED <<wrapperVars, runVars, fixtureVars, waitVars, tcVars, threadVars, base_path, responses, response_data,
                   request_data, reqlog, lastAdd, nadds>>

\* process_request, flask_server.py 55-87
SrvProcessRequest ==
    /\ nadds + Len(reqlog) < MaxOps
    /\ \E path \in ReqPaths, method \in ReqMethods, body \in Bodies :
          LET md == MethodData(response_data, path, method)
              stored == Captures(md) /\ ~BodyRaises(body)
          IN /\ statistics' = CountRequest(statistics, <<method, path>>)
             /\ request_data' = IF stored THEN DictSet(request_data, path, body)
                                ELSE request_data
             /\ reqlog' = Append(reqlog,
                              [path |-> path, method |-> method,
                               status |-> StatusOf(response_data, path, method, body),
                               captured |-> stored,
                               body |-> IF stored THEN body ELSE "-"])
    /\ UNCHANGED <<wrapperVars, runVars, fixtureVars, waitVars, tcVars, threadVars, base_path, responses, response_data,
                   resetAt, lastAdd, nadds>>

\* get_request_data, flask_server.py 46-47
GetRequestData(path) == FindData(request_data, path)

\* get_statistics, flask_server.py 49-50
GetStatistics == statistics

InitSrv ==
    /\ WaitIdle
    /\ TCIdle
    /\ WrapperIdle
    /\ RunIdle
    /\ container = [c \in Containers |-> FALSE]
    /\ docker = [c \in Containers |-> "exited"]
    /\ base_path \in {Strip(b) : b \in BasePathArgs}
    /\ responses = <<>>
    /\ response_data = <<>>
    /\ request_data = <<>>
    /\ statistics = <<>>
    /\ reqlog = <<>>
    /\ resetAt = 0
    /\ lastAdd = <<>>
    /\ nadds = 0
    /\ ThreadIdle

NextSrv ==
    \/ SrvAddResponse
    \/ SrvSetResponseData
    \/ SrvResetStatistics
    \/ SrvProcessRequest

SpecSrv == InitSrv /\ [][NextSrv]_vars

(***************************************************************************)
(* Claims about the mock server                                            *)
(***************************************************************************)
StatsKey(r) == <<r.method, r.path>>
SinceReset == SubSeq(reqlog, resetAt + 1, Len(reqlog))
Received(log, key) == Cardinality({i \in DOMAIN log : StatsKey(log[i]) = key})
LastRequest == reqlog[Len(reqlog)]

\* the table holds an entry for the path, and an entry for the path and the method
PathConfigured(table, path) ==
    \E i \in DOMAIN table : Annon(table[i].key) = Annon(path)
PairConfigured(table, path, method) ==
    \E i \in DOMAIN table :
        /\ Annon(table[i].key) = Annon(path)
        /\ \E j \in DOMAIN table[i].value :
              Annon(table[i].value[j].key) = Annon(method)

\* C6: get_statistics() maps each key 'METHOD path' to exactly the number of
\* requests received with that method and path since the server started or since
\* the last reset_statistics(), those answered with 404 included, and holds no key
\* of a pair that was not requested.
C6_StatisticsCount ==
    /\ DOMAIN GetStatistics = {StatsKey(SinceReset[i]) : i \in DOMAIN SinceReset}
    /\ \A key \in DOMAIN GetStatistics : GetStatistics[key] = Received(SinceReset, key)

C6_Witness ==
    /\ Len(reqlog) = 2
    /\ resetAt = 0
    /\ StatsKey(reqlog[1]) = StatsKey(reqlog[2])
    /\ reqlog[1].status = 404
    /\ reqlog[2].status # 404
    /\ GetStatistics[StatsKey(reqlog[1])] = 2

\* C7: once the latest for_server() has been pushed with set_response_data, a
\* request for (path, method) is answered with the status of the most recent
\* add_response for that pair, and a pair absent from the pushed table is no longer
\* served (it is answered 404).
C7_Claim ==
    response_data = ForServer(responses) =>
        \A path \in ReqPaths, method \in ReqMethods :
            /\ <<path, method>> \in DOMAIN lastAdd =>
                  StatusOf(response_data, path, method, "b1") = lastAdd[<<path, method>>]
            /\ ~PairConfigured(response_data, path, method) =>
                  StatusOf(response_data, path, method, "b1") = 404

\* C8: the server answers 404 to every request whose path has no configured entry,
\* and to every request whose path is configured but whose method is not, and such
\* a request leaves the stored request data unchanged.
C8_NotConfigured404 ==
    [][Len(reqlog') = Len(reqlog) + 1 =>
          LET r == reqlog'[Len(reqlog')]
          IN (\/ ~PathConfigured(response_data, r.path)
              \/ ~PairConfigured(response_data, r.path, r.method)) =>
                 (r.status = 404 /\ request_data' = request_data)]_vars

C8_Witness ==
    /\ reqlog # <<>>
    /\ request_data # <<>>
    /\ response_data = ForServer(responses)
    /\ PathConfigured(response_data, LastRequest.path)
    /\ ~PairConfigured(response_data, LastRequest.path, LastRequest.method)
    /\ LastRequest.status = 404

\* the requests to the path (compared as _annon compares) that were served by a
\* response with capture
CapturedFor(path) ==
    {i \in DOMAIN reqlog : reqlog[i].captured /\ Annon(reqlog[i].path) = Annon(path)}

\* C9: get_request_data(path) returns the body of the most recent request to that
\* path that was served by a response configured with capture=True, paths compared
\* ignoring case and leading/trailing slashes, and None when there was none.
C9_Claim ==
    \A path \in ReqPaths :
        GetRequestData(path) =
            IF CapturedFor(path) = {} THEN NotFound
            ELSE Found(reqlog[CHOOSE i \in CapturedFor(path) :
                                  \A j \in CapturedFor(path) : j <= i].body)

\* the answer to a request: its status and whether its body is stored
AnswerTo(table, path, method) ==
    LET md == MethodData(table, path, method)
    IN [status |-> IF md.found THEN md.value.status ELSE 404, stores |-> Captures(md)]

\* the spellings of paths and methods a lookup may be handed
LookupPaths == ReqPaths \cup PathKeys \cup {<<"/", "a", "/">>}
LookupMethods == ReqMethods \cup MethodKeys

\* a request as Flask hands it over, paired with every other spelling that differs
\* from it at most in case and in leading or trailing slashes
SameRequest ==
    {rr \in (ReqPaths \X ReqMethods) \X (LookupPaths \X LookupMethods) :
        /\ rr[1] # rr[2]
        /\ Lower(Strip(rr[1][1])) = Lower(Strip(rr[2][1]))
        /\ Lower(Strip(rr[1][2])) = Lower(Strip(rr[2][2]))}

\* C10: the lookup of a configured response ignores case and leading/trailing
\* slashes of the path and of the method: two requests that differ only in those
\* get the same configured response.
C10_LookupNormalises ==
    \A rr \in SameRequest :
        AnswerTo(response_data, rr[1][1], rr[1][2]) =
            AnswerTo(response_data, rr[2][1], rr[2][2])

C10_Witness ==
    /\ Len(reqlog) = 2
    /\ reqlog[1].path # reqlog[2].path
    /\ Annon(reqlog[1].path) = Annon(reqlog[2].path)
    /\ reqlog[1].status = 503
    /\ reqlog[2].status = 503
    /\ AnswerTo(response_data, <<"A", "/">>, get) = AnswerTo(response_data, <<"a">>, GET)
    /\ AnswerTo(response_data, <<"a">>, GET) = [status |-> 503, stores |-> TRUE]

(***************************************************************************)
(* The mock server with its two threads (flask_server.py 90-138): the      *)
(* FlaskThread serves the requests one after the other, the test thread    *)
(* calls reset_statistics() on the same FlaskApp, and nothing locks the     *)
(* statistics.  The statement of line 60,                                  *)
(*   self.statistics[stats_key] = self.statistics.get(stats_key, 0) + 1    *)
(* loads self.statistics, calls get and adds one, loads self.statistics    *)
(* again and stores; the interpreter can switch threads between any two    *)
(* of these steps.                                                         *)
(***************************************************************************)
ThreadFrame == <<wrapperVars, runVars, fixtureVars, waitVars, tcVars, base_path, responses,
                 response_data, lastAdd, nadds>>

\* statistics.get(stats_key, 0) + 1 on the dict that was loaded
Incremented(stats, key) == (IF key \in DOMAIN stats THEN stats[key] ELSE 0) + 1

\* process_request, lines 56-60: the request arrives and self.statistics is loaded
\* for the call of get
ThrLoadForGet ==
    /\ s_pc = "idle"
    /\ Len(reqlog) < MaxOps
    /\ \E path \in ReqPaths, method \in ReqMethods, body \in Bodies :
          s_req' = [path |-> path, method |-> method, body |-> body]
    /\ s_pc' = "loaded"
    /\ s_val' = 0
    /\ s_live' = TRUE
    /\ s_dict' = <<>>
    /\ s_reset' = FALSE
    /\ UNCHANGED <<ThreadFrame, request_data, statistics, reqlog, resetAt>>

\* line 60, right-hand side: get on the loaded dict, plus one
ThrGet ==
    /\ s_pc = "loaded"
    /\ s_val' = Incremented(IF s_live THEN statistics ELSE s_dict, <<s_req.method, s_req.path>>)
    /\ s_pc' = "got"
    /\ s_live' = FALSE
    /\ s_dict' = <<>>
    /\ UNCHANGED <<ThreadFrame, request_data, statistics, reqlog, resetAt, s_req, s_reset>>

\* line 60, the target: self.statistics is loaded a second time
ThrLoadForStore ==
    /\ s_pc = "got"
    /\ s_pc' = "target"
    /\ s_live' = TRUE
    /\ UNCHANGED <<ThreadFrame, request_data, statistics, reqlog, resetAt, s_req, s_val, s_dict,
                   s_reset>>

\* line 60, the store into the dict loaded for it
ThrStore ==
    /\ s_pc = "target"
    /\ IF s_live
         THEN /\ statistics' = (<<s_req.method, s_req.path>> :> s_val) @@ statistics
              /\ s_dict' = s_dict
         ELSE /\ s_dict' = (<<s_req.method, s_req.path>> :> s_val) @@ s_dict
              /\ statistics' = statistics
    /\ s_pc' = "counted"
    /\ s_live' = FALSE
    /\ UNCHANGED <<ThreadFrame, request_data, reqlog, resetAt, s_req, s_val, s_reset>>

\* process_request, lines 62-87: the answer
ThrRespond ==
    /\ s_pc = "counted"
    /\ LET md == MethodData(response_data, s_req.path, s_req.method)
           stored == Captures(md) /\ ~BodyRaises(s_req.body)
       IN /\ request_data' = IF stored THEN DictSet(request_data, s_req.path, s_req.body)
                             ELSE request_data
          /\ reqlog' = Append(reqlog,
                           [path |-> s_req.path, method |-> s_req.method,
                            status |-> StatusOf(response_data, s_req.path, s_req.method,
                                                s_req.body),
                            captured |-> stored,
                            body |-> IF stored THEN s_req.body ELSE "-"])
    /\ s_pc' = "idle"
    /\ UNCHANGED <<ThreadFrame, statistics, resetAt, s_req, s_val, s_live, s_dict, s_reset>>

\* FlaskThread.reset_statistics, lines 120-121, called by the test thread: the
\* attribute is bound to a new dict, and a dict the server thread has loaded is no
\* longer the one of the FlaskApp
ThrResetStatistics ==
    /\ statistics' = <<>>
    /\ resetAt' = Len(reqlog)
    /\ s_live' = FALSE
    /\ s_dict' = IF s_live THEN statistics ELSE s_dict
    /\ s_reset' = (s_reset \/ s_pc # "idle")
    /\ UNCHANGED <<ThreadFrame, request_data, reqlog, s_pc, s_req, s_val>>

InitThreads == InitSrv

NextThreads ==
    \/ ThrLoadForGet
    \/ ThrGet
    \/ ThrLoadForStore
    \/ ThrStore
    \/ ThrRespond
    \/ ThrResetStatistics

SpecThreads == InitThreads /\ [][NextThreads]_vars

\* C23: when reset_statistics() is called from the test thread while the server
\* thread is processing a request, no count of before the reset survives: once
\* both have completed, the counter of that request is absent or 1.
C23_Claim ==
    (s_pc \in {"counted", "idle"} /\ s_reset)
        => \/ <<s_req.method, s_req.path>> \notin DOMAIN GetStatistics
           \/ GetStatistics[<<s_req.method, s_req.path>>] = 1

(***************************************************************************)
(* Calls on one Container wrapper (container.py 28-225) and on one         *)
(* BackgroundProcess (background_process.py), made in any order.  The      *)
(* container is run with remove=True (line 77): once it has exited it is   *)
(* gone, its log with it, and a request about it raises NotFound.          *)
(***************************************************************************)
HostPaths == {"h1"}
Wrapped == "c1"
Spawned == "p1"

\* the bytes of a log: a letter, a carriage return, a line feed, a byte above 127
Ascii == {"x", "CR", "LF"}
LogBytes == Ascii \cup {"0xC3"}

\* utils.bytesToString, utils.py 10-18: decode("us-ascii", errors="ignore") drops
\* the bytes above 127, replace("\r", "") the carriage returns
BytesToString(bytes) ==
    IF bytes = <<>> THEN <<>>
    ELSE SelectSeq(bytes, LAMBDA b : b \in Ascii /\ b # "CR")

\* str.split("\n"): the lines of a text, one more than its line feeds
RECURSIVE Split(_)
Split(text) ==
    IF \A i \in DOMAIN text : text[i] # "LF" THEN <<text>>
    ELSE LET i == CHOOSE j \in DOMAIN text :
                      text[j] = "LF" /\ \A k \in 1..(j - 1) : text[k] # "LF"
         IN <<SubSeq(text, 1, i - 1)>> \o Split(SubSeq(text, i + 1, Len(text)))

\* text[n:]
SliceFrom(text, n) == SubSeq(text, n + 1, Len(text))

IsPrefix(s, u) == Len(s) <= Len(u) /\ SubSeq(u, 1, Len(s)) = s

\* Container.logs, lines 163-169: "" without a handle; "NotFound" stands for the
\* exception of container.logs() when the container is gone
LogsOutcome == IF container[Wrapped] /\ ~Listed(Wrapped) THEN "NotFound" ELSE "str"
Logs == IF ~container[Wrapped] THEN <<>> ELSE BytesToString(c_log)

\* start, line 66
StartAlways(handle) == FALSE
AlreadyRunning(handle) == handle

\* the frame of a call on the wrapper
ContFrame == UNCHANGED <<waitVars, tcVars, srvVars, runVars, process, bp_stdout,
                         startTime, bp_asked>>
NoMount == UNCHANGED <<volumes, execs>>
NotRefused == UNCHANGED refused
CalledWith(name, ret, images) ==
    /\ ncalls < MaxCalls
    /\ ncalls' = ncalls + 1
    /\ w_op' = name
    /\ w_ret' = ret
    /\ w_pre' = [handle |-> container[Wrapped], status |-> docker[Wrapped],
                 runs |-> runs, asked |-> bp_asked, volumes |-> volumes, execs |-> execs,
                 images |-> images]
Called(name, ret) == CalledWith(name, ret, <<>>)

\* the local repository: the images, each the list of its RepoTags
image_name == "img:1"
ReposWithout == {<<>>, << <<"other:1">>, <<>> >>}
ReposWith == {<< <<"other:1">>, <<"img:0", "img:1">> >>}

\* imageExists, lines 336-347
imageAlwaysExists(images, name) == TRUE
imageExists(images, name) ==
    \E i \in DOMAIN images : \E t \in DOMAIN images[i] : images[i][t] = name

\* start, lines 65-90.  The container that run() launched may have exited before
\* refresh() (line 83) lists the containers; its log starts empty.
ContStart ==
    /\ IF AlreadyRunning(container[Wrapped])
         THEN /\ Called("start", "None")
              /\ UNCHANGED <<fixtureVars, c_log, snapOk, runs, refused>>
         ELSE \E images \in ReposWithout \cup ReposWith, s \in Status :
                 IF ~imageExists(images, image_name)
                   THEN /\ CalledWith("start", "FileNotFoundError", images)
                        /\ refused' = TRUE
                        /\ UNCHANGED <<fixtureVars, c_log, snapOk, runs>>
                   ELSE /\ CalledWith("start", "None", images)
                        /\ UNCHANGED refused
                        /\ runs' = runs + 1
                        /\ docker' = [docker EXCEPT ![Wrapped] = s]
                        /\ container' = [container EXCEPT ![Wrapped] = (s # "exited")]
                        /\ c_log' = <<>>
                        /\ snapOk' = (snapOk /\ s # "exited" /\ IsPrefix(snapLog, <<>>))
    /\ UNCHANGED <<last_log_size, snapLog, w_out, asks>>
    /\ NoMount
    /\ ContFrame

\* stop, lines 133-140: the request is made when a handle is held, and raises
\* when the container is gone; the handle is then kept
ContStop ==
    /\ IF ~container[Wrapped]
         THEN /\ Called("stop", "None")
              /\ UNCHANGED <<fixtureVars, c_log, snapOk, asks>>
         ELSE /\ asks' = asks + 1
              /\ IF Listed(Wrapped)
                   THEN /\ Called("stop", "None")
                        /\ docker' = [docker EXCEPT ![Wrapped] = "exited"]
                        /\ container' = [container EXCEPT ![Wrapped] = FALSE]
                        /\ c_log' = <<>>
                        /\ snapOk' = FALSE
                   ELSE /\ Called("stop", "NotFound")
                        /\ UNCHANGED <<fixtureVars, c_log, snapOk>>
    /\ UNCHANGED <<last_log_size, snapLog, w_out, runs>>
    /\ NoMount
    /\ NotRefused
    /\ ContFrame

\* kill, lines 142-149: the request is made when a handle is held, and raises
\* when the container is gone; the handle is then kept
ContKill ==
    /\ IF ~container[Wrapped]
         THEN /\ Called("kill", "None")
              /\ UNCHANGED <<fixtureVars, c_log, snapOk, asks>>
         ELSE /\ asks' = asks + 1
              /\ IF Listed(Wrapped)
                   THEN /\ Called("kill", "None")
                        /\ docker' = [docker EXCEPT ![Wrapped] = "exited"]
                        /\ container' = [container EXCEPT ![Wrapped] = FALSE]
                        /\ c_log' = <<>>
                        /\ snapOk' = FALSE
                   ELSE /\ Called("kill", "NotFound")
                        /\ UNCHANGED <<fixtureVars, c_log, snapOk>>
    /\ UNCHANGED <<last_log_size, snapLog, w_out, runs>>
    /\ NoMount
    /\ NotRefused
    /\ ContFrame

\* terminate, lines 151-161
ContTerminate ==
    /\ Called("terminate", "None")
    /\ asks' = IF container[Wrapped] THEN asks + 1 ELSE asks
    /\ container' = [container EXCEPT ![Wrapped] = ContainerAfterTerminate(Wrapped)]
    /\ docker' = [docker EXCEPT ![Wrapped] = DockerAfterTerminate(Wrapped)]
    /\ c_log' = IF KillSucceeds(Wrapped) THEN <<>> ELSE c_log
    /\ snapOk' = (snapOk /\ ~KillSucceeds(Wrapped))
    /\ UNCHANGED <<last_log_size, snapLog, w_out, runs>>
    /\ NoMount
    /\ NotRefused
    /\ ContFrame

\* isReady, lines 218-225
ContIsReady ==
    /\ Called("isReady", IsReadyOutcome(Wrapped))
    /\ container' = [container EXCEPT ![Wrapped] = HandleAfterRefresh(Wrapped)]
    /\ UNCHANGED <<docker, c_log, last_log_size, snapLog, snapOk, w_out, runs, asks>>
    /\ NoMount
    /\ NotRefused
    /\ ContFrame

\* logSnapshotSet, line 180
SizeOfBytes == Len(c_log)
SizeOfLogs == Len(Logs)

\* logSnapshotSet, lines 171-193
ContLogSnapshotSet ==
    /\ IF LogsOutcome = "NotFound"
         THEN /\ Called("logSnapshotSet", "NotFound")
              /\ UNCHANGED <<last_log_size, snapLog, snapOk>>
         ELSE /\ Called("logSnapshotSet", "Result")
              /\ last_log_size' = SizeOfLogs
              /\ snapLog' = c_log
              /\ snapOk' = TRUE
    /\ UNCHANGED <<fixtureVars, c_log, w_out, runs, asks>>
    /\ NoMount
    /\ NotRefused
    /\ ContFrame

\* logSnapshotDiff, lines 195-216
ContLogSnapshotDiff ==
    /\ IF LogsOutcome = "NotFound"
         THEN /\ Called("logSnapshotDiff", "NotFound")
              /\ w_out' = <<>>
         ELSE /\ Called("logSnapshotDiff", "Result")
              /\ w_out' = Split(SliceFrom(Logs, last_log_size))
    /\ UNCHANGED <<fixtureVars, c_log, last_log_size, snapLog, snapOk, runs, asks>>
    /\ NoMount
    /\ NotRefused
    /\ ContFrame

\* the program in the container writes to its output
ContLog ==
    /\ Listed(Wrapped)
    /\ Len(c_log) < MaxLog
    /\ \E b \in LogBytes : c_log' = Append(c_log, b)
    /\ UNCHANGED <<fixtureVars, last_log_size, snapLog, snapOk, w_op, w_ret, w_out, w_pre,
                   runs, asks, ncalls>>
    /\ NoMount
    /\ NotRefused
    /\ ContFrame

\* the runtime: the container comes up, restarts, or exits and is removed
ContDockerChange ==
    /\ Listed(Wrapped)
    /\ \E s \in Status \ {docker[Wrapped]} :
          /\ docker' = [docker EXCEPT ![Wrapped] = s]
          /\ c_log' = IF s = "exited" THEN <<>> ELSE c_log
          /\ snapOk' = (snapOk /\ s # "exited")
    /\ UNCHANGED <<container, last_log_size, snapLog, w_op, w_ret, w_out, w_pre, runs,
                   asks, ncalls>>
    /\ NoMount
    /\ NotRefused
    /\ ContFrame

\* the output of a command run in the container
ShellOutputs == {<<>>, <<"x", "LF">>}

\* shellCmd, lines 238-263: exec_run is refused for a container that is not
\* running
ContShellCmd ==
    /\ IF ~container[Wrapped]
         THEN /\ Called("shellCmd", "RuntimeError")
              /\ UNCHANGED <<execs, w_out>>
         ELSE /\ execs' = execs + 1
              /\ IF docker[Wrapped] = "running"
                   THEN /\ Called("shellCmd", "Result")
                        /\ \E output \in ShellOutputs : w_out' = Split(BytesToString(output))
                   ELSE /\ Called("shellCmd", IF Listed(Wrapped) THEN "APIError" ELSE "NotFound")
                        /\ UNCHANGED w_out
    /\ UNCHANGED <<fixtureVars, c_log, last_log_size, snapLog, snapOk, runs, asks, volumes>>
    /\ NotRefused
    /\ ContFrame

\* copyDir, lines 296-310: the tar file is written from hostDir, then handed to
\* put_archive
ContCopyDir ==
    /\ IF ~container[Wrapped]
         THEN /\ Called("copyDir", "RuntimeError")
              /\ UNCHANGED execs
         ELSE \E hostDir \in BOOLEAN :
                 IF ~hostDir
                   THEN /\ Called("copyDir", "FileNotFoundError")
                        /\ UNCHANGED execs
                   ELSE /\ execs' = execs + 1
                        /\ Called("copyDir", IF Listed(Wrapped) THEN "None" ELSE "NotFound")
    /\ UNCHANGED <<fixtureVars, c_log, last_log_size, snapLog, snapOk, w_out, runs, asks,
                   volumes>>
    /\ NotRefused
    /\ ContFrame

\* setMount, line 288
MountsNeverLocked(handle) == FALSE
MountsLocked(handle) == handle

\* setMount, lines 287-294: dict has no method upate (line 293)
ContSetMount ==
    /\ IF MountsLocked(container[Wrapped])
         THEN /\ Called("setMount", "RuntimeError")
              /\ UNCHANGED volumes
         ELSE \E hostPath \in HostPaths, containerPath \in BOOLEAN :
                 IF ~containerPath
                   THEN /\ Called("setMount", "None")
                        /\ volumes' = volumes \ {hostPath}
                   ELSE /\ Called("setMount", "AttributeError")
                        /\ UNCHANGED volumes
    /\ UNCHANGED <<fixtureVars, c_log, last_log_size, snapLog, snapOk, w_out, runs, asks,
                   execs>>
    /\ NotRefused
    /\ ContFrame

\* subprocess.Popen takes the file descriptors of stdout and stderr from their
\* fileno(); an io.BytesIO has none and raises io.UnsupportedOperation
HasFileno(stream) == stream = "file"
PopenOutcome(stream) == IF HasFileno(stream) THEN "Popen" ELSE "UnsupportedOperation"

\* the frame of a call on the BackgroundProcess
ProcFrame == UNCHANGED <<waitVars, srvVars, runVars, fixtureVars, c_log, last_log_size,
                         snapLog, snapOk, runs, asks, tc_pc, capture_scheme,
                         capture_data, filenames, tc_containers, tc_processes,
                         tc_failed, disk, logfile, termCalls, ran, tdRuns, kills>>

\* BackgroundProcess.start, lines 36-51: the buffers and the start time are set,
\* then Popen is handed the buffers
BPStart ==
    /\ bp_stdout' = "BytesIO"
    /\ startTime' = TRUE
    /\ Called("bp.start", IF PopenOutcome(bp_stdout') = "Popen"
                            THEN "None" ELSE PopenOutcome(bp_stdout'))
    /\ process' = [process EXCEPT ![Spawned] =
                       IF PopenOutcome(bp_stdout') = "Popen" THEN TRUE ELSE @]
    /\ bp_asked' = TRUE
    /\ UNCHANGED w_out
    /\ NoMount
    /\ NotRefused
    /\ ProcFrame

\* BackgroundProcess.stop, lines 61-92, with cleanup, lines 53-59; nothing writes
\* to the buffers, so their value is empty
BPStop ==
    /\ IF ~process[Spawned]
         THEN /\ Called("bp.stop", "None")
              /\ UNCHANGED <<process, bp_stdout, startTime, w_out>>
         ELSE /\ Called("bp.stop", "Result")
              /\ w_out' = Split(BytesToString(<<>>))
              /\ bp_stdout' = "None"
              /\ startTime' = FALSE
              /\ process' = [process EXCEPT ![Spawned] = FALSE]
    /\ bp_asked' = FALSE
    /\ NoMount
    /\ NotRefused
    /\ ProcFrame

\* BackgroundProcess.terminate, lines 94-106
BPTerminate ==
    /\ Called("bp.terminate", "None")
    /\ \E fails \in BOOLEAN :
          /\ process' = [process EXCEPT ![Spawned] = ProcessAfterTerminate(Spawned, fails)]
          /\ IF process[Spawned] /\ ~fails
               THEN bp_stdout' = "None" /\ startTime' = FALSE
               ELSE UNCHANGED <<bp_stdout, startTime>>
    /\ bp_asked' = FALSE
    /\ UNCHANGED w_out
    /\ NoMount
    /\ NotRefused
    /\ ProcFrame

InitFixture ==
    /\ WaitIdle
    /\ TCIdle
    /\ SrvIdle
    /\ RunIdle
    /\ NoCallYet
    /\ volumes \in SUBSET HostPaths
    /\ container = [c \in Containers |-> FALSE]
    /\ docker = [c \in Containers |-> "exited"]

NextFixture ==
    \/ ContStart
    \/ ContStop
    \/ ContKill
    \/ ContTerminate
    \/ ContIsReady
    \/ ContLogSnapshotSet
    \/ ContLogSnapshotDiff
    \/ ContLog
    \/ ContDockerChange
    \/ ContShellCmd
    \/ ContCopyDir
    \/ ContSetMount
    \/ BPStart
    \/ BPStop
    \/ BPTerminate

SpecFixture == InitFixture /\ [][NextFixture]_vars

(***************************************************************************)
(* Claims about the Container wrapper and the BackgroundProcess            *)
(***************************************************************************)
\* C11: after any sequence of start/stop/kill/terminate calls, start() launches a
\* container only when the wrapper holds no handle; start() on a wrapper that holds
\* one launches nothing and leaves the handle as it was.
C11_StartOnlyWithoutHandle ==
    w_op = "start" =>
        /\ runs > w_pre.runs => ~w_pre.handle
        /\ w_pre.handle => (runs = w_pre.runs /\ container[Wrapped])

\* a second start() after the first one launched a container
C11_Witness ==
    /\ w_op = "start"
    /\ w_pre.handle
    /\ runs = 1

\* C12: stop(), kill() and a successful terminate() each leave the wrapper with no
\* handle, and the runtime is asked to stop or kill a container at most once for
\* each container start() launched.
C12_Claim ==
    /\ w_op \in {"stop", "kill"} => ~container[Wrapped]
    /\ asks <= runs

\* C13: isReady() returns True exactly when the wrapper holds a started container
\* that the runtime reports as running, and returns False, raising nothing, in
\* every other case.
C13_Claim ==
    w_op = "isReady" =>
        /\ w_ret \in {"True", "False"}
        /\ w_ret = "True" <=> (w_pre.handle /\ w_pre.status = "running")

C26_TerminateSwallows ==
    /\ w_op \in {"terminate", "bp.terminate"} => w_ret = "None"
    /\ (w_op = "terminate" /\ w_pre.handle /\ w_pre.status = "exited") => container[Wrapped]
    /\ (w_op \in {"stop", "kill"} /\ w_pre.handle /\ w_pre.status = "exited")
          => (w_ret = "NotFound" /\ container[Wrapped])

\* a terminate() of a container that had exited, after a stop() that raised
C26_Witness ==
    /\ w_op = "terminate"
    /\ w_pre.handle
    /\ w_pre.status = "exited"
    /\ w_ret = "None"
    /\ container[Wrapped]
    /\ asks = 2

\* C27: shellCmd() and copyDir() on a Container that holds no handle raise
\* RuntimeError and make no request to the runtime; setMount() on a Container that
\* holds a handle raises RuntimeError and leaves the volumes as they were.
C27_WrongState ==
    /\ (w_op \in {"shellCmd", "copyDir"} /\ ~w_pre.handle)
          => (w_ret = "RuntimeError" /\ execs = w_pre.execs)
    /\ (w_op = "setMount" /\ w_pre.handle)
          => (w_ret = "RuntimeError" /\ volumes = w_pre.volumes)

\* setMount() on a started container that has a volume, after a shellCmd() that
\* was refused for want of a handle
C27_Witness ==
    /\ w_op = "setMount"
    /\ w_pre.handle
    /\ w_ret = "RuntimeError"
    /\ volumes = {"h1"}
    /\ execs = 0
    /\ ncalls = 4

\* C28: start() with an image that is not in the local repository raises
\* FileNotFoundError, launches no container and leaves the wrapper without a
\* handle; a start() of a wrapper without a handle with the image present,
\* after such a start() as well, launches one.
C28_MissingImage ==
    /\ (w_op = "start" /\ ~w_pre.handle /\ w_pre.images \in ReposWithout)
          => (w_ret = "FileNotFoundError" /\ runs = w_pre.runs /\ ~container[Wrapped])
    /\ (w_op = "start" /\ ~w_pre.handle /\ w_pre.images \in ReposWith)
          => (w_ret = "None" /\ runs = w_pre.runs + 1)

\* the second of two start() calls: the first was refused, the second launched a
\* container
C28_Witness ==
    /\ w_op = "start"
    /\ ncalls = 2
    /\ refused
    /\ w_pre.images \in ReposWith
    /\ w_pre.runs = 0
    /\ runs = 1
    /\ container[Wrapped]

\* C15: logSnapshotDiff() returns exactly the text the container logged after the
\* most recent logSnapshotSet(), as lines (one empty line when nothing was logged
\* since), provided the log has only grown between the two calls.
C15_SnapshotDiff ==
    [][(w_op' = "logSnapshotDiff" /\ ncalls' = ncalls + 1 /\ snapOk) =>
          /\ w_ret' = "Result"
          /\ w_out' = Split(BytesToString(SliceFrom(c_log, Len(snapLog))))]_vars

\* a snapshot taken after a carriage return was logged, and a diff after a letter
C15_Witness ==
    /\ w_op = "logSnapshotDiff"
    /\ snapOk
    /\ snapLog = <<"CR">>
    /\ w_out = << <<"x">> >>

(***************************************************************************)
(* IntegrationTestRunner.run (integration_testrunner.py 340-373) with      *)
(* findTests (298-324) and the filters (107-139).  A discovered suite is   *)
(* the list of its test classes, each the list of the names of its test    *)
(* methods; a name is a sequence of characters.                            *)
(***************************************************************************)
None == <<"None">>
TestNames == {<<"a">>, <<"a", "b">>, <<"b">>}
BeforeArgs == {None, <<>>, <<"a", "b">>}
AfterArgs == {None, <<"a", "b">>}
ExcludeArgs == {<<>>, << <<"b">> >>, << <<"b">>, <<"a">> >>}
Outcomes == {"success", "error", "failure", "skipped"}

\* the lists of distinct names, and the suites of at most MaxTests tests
TestClasses ==
    {s \in UNION {[1..n -> TestNames] : n \in 0..MaxTests} :
        \A i, j \in DOMAIN s : s[i] = s[j] => i = j}
RECURSIVE CountTests(_)
CountTests(s) == IF s = <<>> THEN 0 ELSE Len(Head(s)) + CountTests(Tail(s))
Suites ==
    {s \in UNION {[1..n -> TestClasses] : n \in 0..MaxTests} : CountTests(s) <= MaxTests}

\* the order of str: by code point, a proper prefix first
CodePoint == [ch \in {"a", "b"} |-> IF ch = "a" THEN 97 ELSE 98]
StrLess(s, u) ==
    \E i \in 1..(Len(u)) :
        /\ \A k \in 1..(i - 1) : k <= Len(s) /\ s[k] = u[k]
        /\ (i > Len(s) \/ (i <= Len(s) /\ CodePoint[s[i]] < CodePoint[u[i]]))

\* the operator "in" of str
Contains(ex, name) ==
    \E i \in 0..(Len(name) - Len(ex)) : SubSeq(name, i + 1, i + Len(ex)) = ex

\* the truth value of an argument: None and "" are false
Truthy(arg) == arg # None /\ arg # <<>>

\* list.pop(index)
Pop(tests, index) == SubSeq(tests, 1, index - 1) \o SubSeq(tests, index + 1, Len(tests))

\* filter_suite, lines 110-117, for one test suite: the indices func holds of are
\* collected, then popped from the last to the first
RECURSIVE PopAll(_, _)
PopAll(tests, to_remove) ==
    IF to_remove = {} THEN tests
    ELSE LET index == CHOOSE i \in to_remove : \A j \in to_remove : j <= i
         IN PopAll(Pop(tests, index), to_remove \ {index})

\* filter_suite, lines 107-118
filter_suite(s, func) ==
    [i \in DOMAIN s |-> PopAll(s[i], {index \in DOMAIN s[i] : func[s[i][index]]})]

\* filter_before, lines 121-125
is_not_after(name, before) == ~StrLess(name, before)
is_before(name, before) == StrLess(before, name)
filter_before(s, before) == filter_suite(s, [name \in TestNames |-> is_before(name, before)])

\* filter_after, lines 128-132
is_after(name, after) == StrLess(name, after)
filter_after(s, after) == filter_suite(s, [name \in TestNames |-> is_after(name, after)])

\* filter_exclude, lines 135-139
is_excluded(name, exclude) == Contains(exclude, name)
filter_exclude(s, exclude) ==
    filter_suite(s, [name \in TestNames |-> is_excluded(name, exclude)])

RunFrame == UNCHANGED <<fixtureVars, waitVars, tcVars, srvVars, wrapperVars, args,
                        discovered>>
NoTestsRun == UNCHANGED <<test_result, testCaseData>>

\* run, lines 341-345: setupEnvironment (285-296) stores args.known_issues, a bool,
\* in os.environ, which takes str only; processUserArgs is defined by a subclass,
\* not by IntegrationTestRunner
RunSetup ==
    /\ r_pc = "setup"
    /\ IF args.known_issues
         THEN r_ret' = Raised("TypeError") /\ r_pc' = "done"
         ELSE IF ~args.user_hook
                THEN r_ret' = Raised("AttributeError") /\ r_pc' = "done"
                ELSE r_pc' = "before" /\ UNCHANGED r_ret
    /\ UNCHANGED <<suite, excl>>
    /\ NoTestsRun
    /\ RunFrame

\* findTests, lines 309-313
RunFilterBefore ==
    /\ r_pc = "before"
    /\ suite' = IF Truthy(args.before) THEN filter_before(discovered, args.before)
                                        ELSE discovered
    /\ r_pc' = "after"
    /\ UNCHANGED <<excl, r_ret>>
    /\ NoTestsRun
    /\ RunFrame

\* findTests, lines 315-317
RunFilterAfter ==
    /\ r_pc = "after"
    /\ suite' = IF Truthy(args.after) THEN filter_after(suite, args.after) ELSE suite
    /\ r_pc' = "exclude"
    /\ excl' = 1
    /\ UNCHANGED r_ret
    /\ NoTestsRun
    /\ RunFrame

\* findTests, lines 319-322: one turn of the loop
RunFilterExclude ==
    /\ r_pc = "exclude"
    /\ excl <= Len(args.test_exclude)
    /\ suite' = filter_exclude(suite, args.test_exclude[excl])
    /\ excl' = excl + 1
    /\ UNCHANGED <<r_pc, r_ret>>
    /\ NoTestsRun
    /\ RunFrame

\* run, lines 347-356
RunFound ==
    /\ r_pc = "exclude"
    /\ excl > Len(args.test_exclude)
    /\ IF CountTests(suite) = 0
         THEN r_ret' = Returned(3) /\ r_pc' = "done"
         ELSE IF args.list_only
                THEN r_ret' = Returned(0) /\ r_pc' = "done"
                ELSE r_pc' = "run" /\ UNCHANGED r_ret
    /\ UNCHANGED <<suite, excl>>
    /\ NoTestsRun
    /\ RunFrame

\* the tests of a suite in the order they are run, each with its class
RECURSIVE Flatten(_, _)
Flatten(s, i) ==
    IF i > Len(s) THEN <<>>
    ELSE [j \in DOMAIN s[i] |-> [classname |-> i, testname |-> s[i][j]]] \o Flatten(s, i + 1)

\* name_from_test, lines 37-38: the record of a test is kept under the name of its
\* method
name_from_test(test) == test.testname

\* DebugTestResult, lines 44-90, for the first k tests: startTest stores a new
\* record under the name of the test, addSuccess, addError, addFailure or addSkip
\* sets its result and stopTest its end time; the clock does not go back
RECURSIVE Collect(_, _, _, _)
Collect(tests, outcomes, ticks, k) ==
    IF k = 0 THEN [data |-> <<>>, clock |-> 0]
    ELSE LET before == Collect(tests, outcomes, ticks, k - 1)
             record == [testname |-> tests[k].testname, classname |-> tests[k].classname,
                        result |-> outcomes[k], starttime |-> before.clock,
                        endtime |-> before.clock + ticks[k]]
         IN [data |-> (name_from_test(tests[k]) :> record) @@ before.data,
             clock |-> record.endtime]

\* run, lines 358-363: every test of the suite ends in success, error, failure or
\* skipped
RunTests ==
    /\ r_pc = "run"
    /\ test_result' \in [1..CountTests(suite) -> Outcomes]
    /\ \E ticks \in [1..CountTests(suite) -> 0..MaxTicks] :
          testCaseData' = Collect(Flatten(suite, 1), test_result', ticks, CountTests(suite)).data
    /\ r_pc' = "report"
    /\ UNCHANGED <<suite, excl, r_ret>>
    /\ RunFrame

\* run, lines 368-373
Rval(res) ==
    (IF \E i \in DOMAIN res : res[i] = "error" THEN 1 ELSE 0)
      + (IF \E i \in DOMAIN res : res[i] = "failure" THEN 2 ELSE 0)

\* run, lines 365-373: self.writeReports is not defined (the method is writeReport,
\* line 337)
RunReturn ==
    /\ r_pc = "report"
    /\ r_ret' = IF args.reports THEN Raised("AttributeError") ELSE Returned(Rval(test_result))
    /\ r_pc' = "done"
    /\ UNCHANGED <<suite, excl>>
    /\ NoTestsRun
    /\ RunFrame

InitRun ==
    /\ WaitIdle
    /\ TCIdle
    /\ SrvIdle
    /\ WrapperIdle
    /\ container = [c \in Containers |-> FALSE]
    /\ docker = [c \in Containers |-> "exited"]
    /\ r_pc = "setup"
    /\ args \in [before : BeforeArgs, after : AfterArgs, test_exclude : ExcludeArgs,
                  list_only : BOOLEAN, reports : BOOLEAN, known_issues : BOOLEAN,
                  user_hook : BOOLEAN]
    /\ discovered \in Suites
    /\ suite = <<>>
    /\ excl = 1
    /\ test_result = <<>>
    /\ testCaseData = <<>>
    /\ r_ret = NotReturned

NextRun ==
    \/ RunSetup
    \/ RunFilterBefore
    \/ RunFilterAfter
    \/ RunFilterExclude
    \/ RunFound
    \/ RunTests
    \/ RunReturn

SpecRun == InitRun /\ [][NextRun]_vars

(***************************************************************************)
(* Claims about IntegrationTestRunner                                      *)
(***************************************************************************)
\* findTests has applied every filter
FiltersDone ==
    \/ r_pc = "exclude" /\ excl > Len(args.test_exclude)
    \/ r_pc \in {"run", "report"}

\* the tests of the discovered suite that the filters leave, when the bounds
\* are applied or not
Kept(name, withAfter, withBefore) ==
    /\ withAfter => ~StrLess(name, args.after)
    /\ withBefore => ~StrLess(args.before, name)
    /\ \A i \in DOMAIN args.test_exclude : ~Contains(args.test_exclude[i], name)
Left(withAfter, withBefore) ==
    [i \in DOMAIN discovered |->
        SelectSeq(discovered[i], LAMBDA name : Kept(name, withAfter, withBefore))]

\* C18 as stated: the tests left are exactly the discovered tests whose name n
\* satisfies A <= n and n <= B, each bound applied whenever it is given, in their
\* original order, without the tests whose name contains an --exclude string.
C18_Original ==
    FiltersDone => suite = Left(args.after # None, args.before # None)

\* C18 as amended: the same, each bound applied when it is given and not the empty
\* string.
C18_Filtered ==
    FiltersDone => suite = Left(Truthy(args.after), Truthy(args.before))

\* both bounds given, and one of two discovered tests left
C18_Witness ==
    /\ FiltersDone
    /\ Truthy(args.before)
    /\ Truthy(args.after)
    /\ CountTests(discovered) = 2
    /\ CountTests(suite) = 1

\* C19: run returns 3 when no test matches the filters, returns 0 without running
\* a test when --list is given, and otherwise runs the suite and returns 1 if a
\* test ended in error plus 2 if a test ended in failure.
C19_Claim ==
    r_pc = "done" =>
        /\ r_ret.kind = "returned"
        /\ IF CountTests(suite) = 0
             THEN r_ret.value = 3 /\ test_result = <<>>
             ELSE IF args.list_only
                    THEN r_ret.value = 0 /\ test_result = <<>>
                    ELSE /\ Len(test_result) = CountTests(suite)
                         /\ r_ret.value = Rval(test_result)

\* C25: after a test run the result collector holds exactly one record for each
\* test that was started, and the record of a test carries the status that was
\* reported for that test, with a start time not later than its end time.
C25_Claim ==
    (r_pc \in {"report", "done"} /\ test_result # <<>>) =>
        LET tests == Flatten(suite, 1)
        IN /\ Cardinality(DOMAIN testCaseData) = Len(tests)
           /\ \A k \in DOMAIN tests :
                 /\ name_from_test(tests[k]) \in DOMAIN testCaseData
                 /\ testCaseData[name_from_test(tests[k])].classname = tests[k].classname
                 /\ testCaseData[name_from_test(tests[k])].result = test_result[k]
                 /\ testCaseData[name_from_test(tests[k])].starttime
                       <= testCaseData[name_from_test(tests[k])].endtime

====
